---- MODULE Spec2Model ----
(***************************************************************************)
(* Interval containment engine of puzzle 5 (src/5/foodb/src/main.rs):      *)
(* the numeric parser ascii_to_u64, the ClosedInt interval type, and the   *)
(* FoodbProblem construction and brute-force query of main.                *)
(*                                                                         *)
(* Bytes are their ASCII codes, byte strings are sequences of bytes.       *)
(* A Rust Result is a record [tag |-> "Ok", val |-> v] or                  *)
(* [tag |-> "Err", err |-> e].  A ClosedInt is [low |-> l, high |-> h].    *)
(***************************************************************************)
EXTENDS Integers, Sequences, FiniteSets, TLC

VARIABLES
    lines,      \* the input of new_from_lines: a sequence of byte strings
    pos,        \* line_iter: number of lines already consumed
    pc,         \* position of the program
    ints,       \* new_from_lines: local Vec<ClosedInt>
    ids,        \* new_from_lines: local Vec<u64>
    fdb,        \* the FoodbProblem returned by new_from_lines
    cidx,       \* main: number of entries of fdb.to_check already counted
    res,        \* main: the running answer
    panicked,   \* the line a panic of new_from_lines reports, or <<>>
    op,         \* unit level: the function applied last
    arg,        \* unit level: the inputs of the function
    out         \* unit level: what the function returned

vars == <<lines, pos, pc, ints, ids, fdb, cidx, res, panicked, op, arg, out>>

progVars == <<lines, pos, pc, ints, ids, fdb, cidx, res, panicked>>

----------------------------------------------------------------------------
(* Bounds of the model *)

MaxVal == 4         \* interval bounds and query values of the unit level
MaxLen == 4         \* length of an arbitrary byte string
MaxNum == 11        \* numbers rendered as decimal text
MaxSlice == 3       \* length of a slice of intervals
MaxSliceVal == 2    \* interval bounds of a slice of intervals
MaxInts == 2        \* interval lines of a generated input
MaxIds == 1         \* query lines of a generated input
MaxLineVal == 1     \* numbers written in the lines of a generated input
MaxWideLen == 22    \* length of a decimal text with zeros written in front
MaxSearchVal == 5   \* interval bounds of a sorted slice of disjoint intervals

----------------------------------------------------------------------------
(* Bytes *)

Byte0 == 48
Byte9 == 57
ByteDash == 45
ByteNewline == 10

Ok(v) == [tag |-> "Ok", val |-> v]

Err(e) == [tag |-> "Err", err |-> e]

IsOk(r) == r.tag = "Ok"

----------------------------------------------------------------------------
(* u64 arithmetic.  A u64 inside ascii_to_u64 is a wide number: four limbs  *)
(* <<x0, x1, x2, x3>> of 16 bits, the least significant first, for the     *)
(* number x0 + 2^16 * x1 + 2^32 * x2 + 2^48 * x3.  Every operation gives   *)
(* the value wrapped to 64 bits and says whether it overflowed: an         *)
(* overflow panics in a build with overflow checks and wraps in a build    *)
(* without.                                                                *)

Limb == 65536

WZero == <<0, 0, 0, 0>>

WOne == <<1, 0, 0, 0>>

\* a * b on u64, for a factor a of at most ten
u64_mul(a, b) ==
    LET t0 == b[1] * a
        t1 == b[2] * a + t0 \div Limb
        t2 == b[3] * a + t1 \div Limb
        t3 == b[4] * a + t2 \div Limb IN
    [overflow |-> t3 >= Limb,
     val |-> <<t0 % Limb, t1 % Limb, t2 % Limb, t3 % Limb>>]

\* a + b on u64
u64_add(a, b) ==
    LET t0 == a[1] + b[1]
        t1 == a[2] + b[2] + t0 \div Limb
        t2 == a[3] + b[3] + t1 \div Limb
        t3 == a[4] + b[4] + t2 \div Limb IN
    [overflow |-> t3 >= Limb,
     val |-> <<t0 % Limb, t1 % Limb, t2 % Limb, t3 % Limb>>]

\* a u64 that the model holds as a number
ToInt(x) == x[1] + Limb * (x[2] + Limb * (x[3] + Limb * x[4]))

----------------------------------------------------------------------------
(* fn ascii_to_u64(bytes: &[u8]) -> Result<u64, InvalidAsciiU64> *)

\* 10_u64.pow(n), as n multiplications by ten.  (The library multiplies by
\* squaring; none of its products exceeds 10^19 for n <= 19, and for n >= 20
\* the power itself leaves the 64 bits, so it overflows for the same n and
\* wraps to the same value.)
RECURSIVE Pow10(_)
Pow10(n) ==
    IF n = 0 THEN [overflow |-> FALSE, val |-> WOne]
    ELSE LET p == Pow10(n - 1)
             q == u64_mul(10, p.val) IN
         [overflow |-> p.overflow \/ q.overflow, val |-> q.val]

\* the place value of the byte at (1-based) index i of a slice of length len
PlaceValue_shifted(len, i) == Pow10(len - i + 1)

PlaceValue(len, i) == Pow10(len - i)

\* one iteration of the loop, on the byte at (1-based) index i, with res and
\* overflow (an operation has overflowed so far) in st
ascii_step(bytes, i, st) ==
    IF bytes[i] < Byte0 \/ bytes[i] > Byte9
    THEN [tag |-> "Err", err |-> "InvalidAsciiU64", overflow |-> st.overflow]
    ELSE LET val == bytes[i] - Byte0
             pw == PlaceValue(Len(bytes), i)
             term == u64_mul(val, pw.val)
             sum == u64_add(st.res, term.val) IN
         [tag |-> "Run",
          overflow |-> st.overflow \/ pw.overflow
                           \/ term.overflow \/ sum.overflow,
          res |-> sum.val]

\* the loop from index i on: the early return of Err, or res at its end
RECURSIVE ascii_loop(_, _, _)
ascii_loop(bytes, i, st) ==
    IF i > Len(bytes)
    THEN [tag |-> "Ok", val |-> st.res, overflow |-> st.overflow]
    ELSE LET next == ascii_step(bytes, i, st) IN
         IF next.tag = "Err" THEN next
         ELSE ascii_loop(bytes, i + 1, next)

\* the run of the function with wrapping arithmetic and its overflow flag
ascii_to_u64_checked(bytes) ==
    ascii_loop(bytes, 1, [tag |-> "Run", overflow |-> FALSE, res |-> WZero])

\* what the function does in a build: "debug" has overflow checks (the first
\* overflow panics), "release" wraps
ascii_to_u64_build(bytes, build) ==
    LET r == ascii_to_u64_checked(bytes) IN
    IF r.overflow /\ build = "debug" THEN [tag |-> "Panic", overflow |-> TRUE]
    ELSE r

\* the function where no operation overflows, its value held as a number; with
\* an overflow the outcome is that of ascii_to_u64_build
ascii_to_u64(bytes) ==
    LET r == ascii_to_u64_checked(bytes) IN
    IF r.overflow THEN [tag |-> "Overflow"]
    ELSE IF r.tag = "Ok" THEN Ok(ToInt(r.val))
    ELSE Err(r.err)

----------------------------------------------------------------------------
(* mod interval: ClosedInt *)

new_strict(low, high) ==
    IF low >= high THEN Err("InvalidClosedInt")
    ELSE Ok([low |-> low, high |-> high])

new(low, high) ==
    IF low > high THEN Err("InvalidClosedInt")
    ELSE Ok([low |-> low, high |-> high])

\* the loop of from_str: index of the first '-' (1-based), 0 when none
RECURSIVE find_dash(_, _)
find_dash(txt, idx) ==
    IF idx > Len(txt) THEN 0
    ELSE IF txt[idx] = ByteDash THEN idx
    ELSE find_dash(txt, idx + 1)

from_str(txt) ==
    LET idx == find_dash(txt, 1) IN
    IF idx = 0 THEN Err("InvalidClosedInt")
    ELSE LET low == ascii_to_u64(SubSeq(txt, 1, idx - 1)) IN
         IF ~IsOk(low) THEN Err("InvalidClosedInt")
         ELSE LET high == ascii_to_u64(SubSeq(txt, idx + 1, Len(txt))) IN
              IF ~IsOk(high) THEN Err("InvalidClosedInt")
              ELSE new(low.val, high.val)

is_before(self, num) == num > self.high

is_after(self, num) == num < self.low

contains_open(self, num) == num >= self.low /\ num < self.high

contains(self, num) == num >= self.low /\ num <= self.high

min(a, b) == IF b < a THEN b ELSE a

max(a, b) == IF b < a THEN a ELSE b

\* ClosedInt::new(..).unwrap() of merge: a failed unwrap is a panic
unwrap(r) == IF IsOk(r) THEN r ELSE [tag |-> "Panic"]

merge_swapped(self, other) ==
    IF self.high < other.low \/ other.low < self.high
    THEN Err("UnmergableInts")
    ELSE unwrap(new(max(self.low, other.high), min(self.low, other.low)))

merge_lowmax(self, other) ==
    IF self.high < other.low \/ other.low < self.high
    THEN Err("UnmergableInts")
    ELSE unwrap(new(max(self.low, other.low), max(self.low, other.high)))

merge(self, other) ==
    IF self.high < other.low \/ other.low < self.high
    THEN Err("UnmergableInts")
    ELSE unwrap(new(min(self.low, other.low), max(self.low, other.high)))

\* u64::cmp
u64_cmp(a, b) == IF a < b THEN "Less" ELSE IF a > b THEN "Greater" ELSE "Equal"

\* impl Ord for ClosedInt
cmp_lex(self, other) ==
    IF self.low = other.low THEN u64_cmp(self.high, other.high)
    ELSE u64_cmp(self.low, other.low)

cmp(self, other) == u64_cmp(self.low, other.low)

\* impl PartialOrd for ClosedInt: the operators < and > go through partial_cmp
partial_cmp(self, other) == cmp(self, other)

lt(self, other) == partial_cmp(self, other) = "Less"

gt(self, other) == partial_cmp(self, other) = "Greater"

\* #[derive(PartialEq)] on ClosedInt: field by field
eq(self, other) == self.low = other.low /\ self.high = other.high

----------------------------------------------------------------------------
(* fn bruteforce_interval(val: u64, intervals: &[ClosedInt]) -> bool *)

RECURSIVE bruteforce_loop(_, _, _)
bruteforce_loop(val, intervals, i) ==
    IF i > Len(intervals) THEN FALSE
    ELSE IF contains(intervals[i], val) THEN TRUE
    ELSE bruteforce_loop(val, intervals, i + 1)

\* a scan that gives up at the first interval lying above the value
RECURSIVE bruteforce_sorted_loop(_, _, _)
bruteforce_sorted_loop(val, intervals, i) ==
    IF i > Len(intervals) THEN FALSE
    ELSE IF contains(intervals[i], val) THEN TRUE
    ELSE IF is_after(intervals[i], val) THEN FALSE
    ELSE bruteforce_sorted_loop(val, intervals, i + 1)

bruteforce_sorted(val, intervals) == bruteforce_sorted_loop(val, intervals, 1)

bruteforce_first(val, intervals) ==
    Len(intervals) > 0 /\ contains(intervals[1], val)

bruteforce_interval(val, intervals) == bruteforce_loop(val, intervals, 1)

----------------------------------------------------------------------------
(* Unit level: the functions of the interval engine applied to inputs     *)
(* drawn by Init.  The program itself is idle at this level.              *)

NoResult == [tag |-> "None"]

NoPanic == [msg |-> "", line |-> <<>>]

ProgramIdle ==
    /\ lines = <<>>
    /\ pos = 0
    /\ pc = "off"
    /\ ints = <<>>
    /\ ids = <<>>
    /\ fdb = [intervals |-> <<>>, to_check |-> <<>>]
    /\ cidx = 0
    /\ res = 0
    /\ panicked = NoPanic

\* the intervals that exist: every ClosedInt comes out of ClosedInt::new
ClosedInts(n) ==
    {r.val : r \in {q \in {new(l, h) : l, h \in 0..n} : IsOk(q)}}

(* -- the interval type -- *)

InitInterval ==
    /\ ProgramIdle
    /\ op = "none"
    /\ arg \in [low1 : 0..MaxVal, high1 : 0..MaxVal,
                low2 : 0..MaxVal, high2 : 0..MaxVal, num : 0..MaxVal]
    /\ out = NoResult

ArgA == new(arg.low1, arg.high1)

ArgB == new(arg.low2, arg.high2)

CallNew ==
    /\ op' = "new"
    /\ out' = new(arg.low1, arg.high1)
    /\ UNCHANGED <<progVars, arg>>

CallMerge ==
    /\ IsOk(ArgA) /\ IsOk(ArgB)
    /\ op' = "merge"
    /\ out' = merge(ArgA.val, ArgB.val)
    /\ UNCHANGED <<progVars, arg>>

CallContains ==
    /\ IsOk(ArgA)
    /\ op' = "contains"
    /\ out' = [contains |-> contains(ArgA.val, arg.num),
               is_before |-> is_before(ArgA.val, arg.num),
               is_after |-> is_after(ArgA.val, arg.num)]
    /\ UNCHANGED <<progVars, arg>>

CallCmp ==
    /\ IsOk(ArgA) /\ IsOk(ArgB)
    /\ op' = "cmp"
    /\ out' = [cmp |-> cmp(ArgA.val, ArgB.val),
               lt |-> lt(ArgA.val, ArgB.val),
               gt |-> gt(ArgA.val, ArgB.val),
               eq |-> eq(ArgA.val, ArgB.val)]
    /\ UNCHANGED <<progVars, arg>>

NextInterval == CallNew \/ CallMerge \/ CallContains \/ CallCmp

SpecInterval == InitInterval /\ [][NextInterval]_vars

(* -- the parsers -- *)

\* the decimal text of a number
RECURSIVE Decimal(_)
Decimal(n) ==
    IF n < 10 THEN <<Byte0 + n>>
    ELSE Append(Decimal(n \div 10), Byte0 + (n % 10))

\* the text "<a>-<b>"
IntervalText(a, b) == Decimal(a) \o <<ByteDash>> \o Decimal(b)

\* '-', '/', '0', '1', '9', ':'
Alphabet == {ByteDash, Byte0 - 1, Byte0, Byte0 + 1, Byte9, Byte9 + 1}

ByteStrings(n) == UNION {[1..k -> Alphabet] : k \in 0..n}

Texts ==
    ByteStrings(MaxLen) \cup {IntervalText(a, b) : a, b \in 0..MaxNum}

InitParse ==
    /\ ProgramIdle
    /\ op = "none"
    /\ arg \in [txt : Texts]
    /\ out = NoResult

CallAsciiToU64 ==
    /\ op' = "ascii_to_u64"
    /\ out' = ascii_to_u64(arg.txt)
    /\ UNCHANGED <<progVars, arg>>

CallFromStr ==
    /\ op' = "from_str"
    /\ out' = from_str(arg.txt)
    /\ UNCHANGED <<progVars, arg>>

NextParse == CallAsciiToU64 \/ CallFromStr

SpecParse == InitParse /\ [][NextParse]_vars

(* -- the numeric parser at the width of u64 -- *)

\* the text of a sequence of decimal digits, and a text of k zeros
DigitText(d) == [i \in 1..Len(d) |-> Byte0 + d[i]]

Zeros(k) == [i \in 1..k |-> Byte0]

\* "0", "1", "9", "123123", 10^19, 2^64 - 1, 2^64, 20 nines, and "1:" with a
\* byte that is no digit
WideTails ==
    { DigitText(<<0>>), DigitText(<<1>>), DigitText(<<9>>),
      DigitText(<<1, 2, 3, 1, 2, 3>>),
      DigitText([i \in 1..20 |-> IF i = 1 THEN 1 ELSE 0]),
      DigitText(<<1, 8, 4, 4, 6, 7, 4, 4, 0, 7, 3, 7, 0, 9, 5, 5, 1, 6, 1, 5>>),
      DigitText(<<1, 8, 4, 4, 6, 7, 4, 4, 0, 7, 3, 7, 0, 9, 5, 5, 1, 6, 1, 6>>),
      DigitText([i \in 1..20 |-> 9]),
      <<Byte0 + 1, Byte9 + 1>> }

WideTexts ==
    UNION {{Zeros(k) \o t : k \in 0..(MaxWideLen - Len(t))} : t \in WideTails}

InitWidth ==
    /\ ProgramIdle
    /\ op = "none"
    /\ arg \in [txt : WideTexts, build : {"debug", "release"}]
    /\ out = NoResult

CallAsciiToU64Build ==
    /\ op' = "ascii_to_u64_build"
    /\ out' = ascii_to_u64_build(arg.txt, arg.build)
    /\ UNCHANGED <<progVars, arg>>

NextWidth == CallAsciiToU64Build

SpecWidth == InitWidth /\ [][NextWidth]_vars

(* -- the linear scan -- *)

SeqsUpTo(S, n) == UNION {[1..k -> S] : k \in 0..n}

InitQuery ==
    /\ ProgramIdle
    /\ op = "none"
    /\ arg \in [val : 0..(MaxSliceVal + 1),
                intervals : SeqsUpTo(ClosedInts(MaxSliceVal), MaxSlice)]
    /\ out = NoResult

CallBruteforce ==
    /\ op' = "bruteforce_interval"
    /\ out' = bruteforce_interval(arg.val, arg.intervals)
    /\ UNCHANGED <<progVars, arg>>

NextQuery == CallBruteforce

SpecQuery == InitQuery /\ [][NextQuery]_vars

(* -- the query by binary search (specification 4.3; the source has only *)
(* the linear scan) -- *)

\* the number of intervals among the first hi whose low is <= val, for a slice
\* ascending by low of which the first lo are known to have low <= val
RECURSIVE partition_point(_, _, _, _)
partition_point(val, intervals, lo, hi) ==
    IF lo >= hi THEN lo
    ELSE LET mid == (lo + hi) \div 2 IN
         IF intervals[mid + 1].low <= val
         THEN partition_point(val, intervals, mid + 1, hi)
         ELSE partition_point(val, intervals, lo, mid)

\* the interval with the greatest low <= val, and contains of that one only
binary_search_interval(val, intervals) ==
    LET k == partition_point(val, intervals, 0, Len(intervals)) IN
    IF k = 0 THEN FALSE ELSE contains(intervals[k], val)

\* slices ascending by low in which no two intervals share a value
SortedDisjoint ==
    {s \in SeqsUpTo(ClosedInts(MaxSearchVal), MaxSlice) :
        \A i, j \in 1..Len(s) : i < j => s[i].high < s[j].low}

InitSearch ==
    /\ ProgramIdle
    /\ op = "none"
    /\ arg \in [val : 0..(MaxSearchVal + 1), intervals : SortedDisjoint]
    /\ out = NoResult

CallSearch ==
    /\ op' = "search"
    /\ out' = [binary |-> binary_search_interval(arg.val, arg.intervals),
               linear |-> bruteforce_interval(arg.val, arg.intervals)]
    /\ UNCHANGED <<progVars, arg>>

NextSearch == CallSearch

SpecSearch == InitSearch /\ [][NextSearch]_vars

----------------------------------------------------------------------------
(* The program: FoodbProblem::new_from_lines followed by the loop of main *)

\* slice::split(|&v| v == sep): the pieces between the separators
RECURSIVE split_first(_, _, _)
split_first(bytes, sep, i) ==
    IF i > Len(bytes) THEN 0
    ELSE IF bytes[i] = sep THEN i
    ELSE split_first(bytes, sep, i + 1)

RECURSIVE split(_, _)
split(bytes, sep) ==
    LET k == split_first(bytes, sep, 1) IN
    IF k = 0 THEN <<bytes>>
    ELSE <<SubSeq(bytes, 1, k - 1)>> \o split(SubSeq(bytes, k + 1, Len(bytes)), sep)

\* the byte string of tests::test_load
TestLoadBytes ==
    <<51, 45, 53, 10,
      49, 48, 45, 49, 52, 10,
      49, 54, 45, 50, 48, 10,
      49, 50, 45, 49, 56, 10,
      10,
      49, 10,
      53, 10,
      56, 10,
      49, 49, 10,
      49, 55, 10,
      51, 50>>

TestLoadLines == split(TestLoadBytes, ByteNewline)

\* an insertion that puts x before the elements it compares Equal to
RECURSIVE sort_insert_unstable(_, _)
sort_insert_unstable(sorted, x) ==
    IF sorted = <<>> THEN <<x>>
    ELSE IF cmp(sorted[Len(sorted)], x) # "Less"
         THEN Append(sort_insert_unstable(SubSeq(sorted, 1, Len(sorted) - 1), x),
                     sorted[Len(sorted)])
         ELSE Append(sorted, x)

\* Vec::sort (stable) under impl Ord for ClosedInt
RECURSIVE sort_insert(_, _)
sort_insert(sorted, x) ==
    IF sorted = <<>> THEN <<x>>
    ELSE IF cmp(sorted[Len(sorted)], x) = "Greater"
         THEN Append(sort_insert(SubSeq(sorted, 1, Len(sorted) - 1), x),
                     sorted[Len(sorted)])
         ELSE Append(sorted, x)

RECURSIVE sort(_)
sort(v) ==
    IF v = <<>> THEN <<>>
    ELSE sort_insert(sort(SubSeq(v, 1, Len(v) - 1)), v[Len(v)])

(* -- the inputs -- *)

BlankLine == <<>>

\* lines that are no interval: "1" (no '-'), "-1" (no low), "1-0" (low > high),
\* "1-:" (a byte that is no digit)
BadIntLines ==
    { <<Byte0 + 1>>,
      <<ByteDash, Byte0 + 1>>,
      <<Byte0 + 1, ByteDash, Byte0>>,
      <<Byte0 + 1, ByteDash, Byte9 + 1>> }

IntLinePool ==
    UNION {{IntervalText(a, b) : b \in a..MaxLineVal} : a \in 0..MaxLineVal}
        \cup BadIntLines

\* query lines, and "1:" that is no number
IdLinePool ==
    {Decimal(v) : v \in 0..(MaxLineVal + 1)} \cup { <<Byte0 + 1, Byte9 + 1>> }

\* what follows the query block: nothing, a blank line, a blank line and more
Tails == { <<>>, <<BlankLine>>, <<BlankLine, Decimal(0)>> }

\* the input ends in the interval block, or a blank line, a query block and a
\* tail follow it
Inputs(nInts, nIds) ==
    SeqsUpTo(IntLinePool, nInts)
    \cup {il \o <<BlankLine>> \o ql \o tl :
            il \in SeqsUpTo(IntLinePool, nInts),
            ql \in SeqsUpTo(IdLinePool, nIds),
            tl \in Tails}
    \cup {TestLoadLines}

Init ==
    /\ lines \in Inputs(MaxInts, MaxIds)
    /\ pos = 0
    /\ pc = "ints"
    /\ ints = <<>>
    /\ ids = <<>>
    /\ fdb = [intervals |-> <<>>, to_check |-> <<>>]
    /\ cidx = 0
    /\ res = 0
    /\ panicked = NoPanic
    /\ op = "none"
    /\ arg = <<>>
    /\ out = NoResult

(* -- new_from_lines: the interval block -- *)

\* a non-blank line that parses: ints.push(x)
ReadInterval ==
    /\ pc = "ints"
    /\ pos < Len(lines)
    /\ Len(lines[pos + 1]) # 0
    /\ IsOk(from_str(lines[pos + 1]))
    /\ ints' = Append(ints, from_str(lines[pos + 1]).val)
    /\ pos' = pos + 1
    /\ UNCHANGED <<lines, pc, ids, fdb, cidx, res, panicked, op, arg, out>>

\* PanicInterval that skips the line instead
PanicInterval_skip ==
    /\ pc = "ints"
    /\ pos < Len(lines)
    /\ Len(lines[pos + 1]) # 0
    /\ ~IsOk(from_str(lines[pos + 1]))
    /\ pos' = pos + 1
    /\ UNCHANGED <<lines, pc, ints, ids, fdb, cidx, res, panicked, op, arg, out>>

\* a non-blank line that does not parse: panic!("Couldn't parse {} as interval")
PanicInterval ==
    /\ pc = "ints"
    /\ pos < Len(lines)
    /\ Len(lines[pos + 1]) # 0
    /\ ~IsOk(from_str(lines[pos + 1]))
    /\ pc' = "panic"
    /\ panicked' = [msg |-> "Couldn't parse as interval", line |-> lines[pos + 1]]
    /\ pos' = pos + 1
    /\ UNCHANGED <<lines, ints, ids, fdb, cidx, res, op, arg, out>>

\* a blank line (break) or the end of the lines (next() is None)
EndIntervals ==
    /\ pc = "ints"
    /\ \/ /\ pos < Len(lines)
          /\ Len(lines[pos + 1]) = 0
          /\ pos' = pos + 1
       \/ /\ pos = Len(lines)
          /\ pos' = pos
    /\ pc' = "ids"
    /\ UNCHANGED <<lines, ints, ids, fdb, cidx, res, panicked, op, arg, out>>

(* -- new_from_lines: the query block -- *)

\* a non-blank line that parses: ids.push(x)
ReadId ==
    /\ pc = "ids"
    /\ pos < Len(lines)
    /\ Len(lines[pos + 1]) # 0
    /\ IsOk(ascii_to_u64(lines[pos + 1]))
    /\ ids' = Append(ids, ascii_to_u64(lines[pos + 1]).val)
    /\ pos' = pos + 1
    /\ UNCHANGED <<lines, pc, ints, fdb, cidx, res, panicked, op, arg, out>>

\* a non-blank line that does not parse: panic!("Couldn't parse {} as id")
PanicId ==
    /\ pc = "ids"
    /\ pos < Len(lines)
    /\ Len(lines[pos + 1]) # 0
    /\ ~IsOk(ascii_to_u64(lines[pos + 1]))
    /\ pc' = "panic"
    /\ panicked' = [msg |-> "Couldn't parse as id", line |-> lines[pos + 1]]
    /\ pos' = pos + 1
    /\ UNCHANGED <<lines, ints, ids, fdb, cidx, res, op, arg, out>>

\* a blank line with a line after it: panic!("Unexpected end of while parsing!")
PanicUnexpected ==
    /\ pc = "ids"
    /\ pos < Len(lines)
    /\ Len(lines[pos + 1]) = 0
    /\ pos + 1 < Len(lines)
    /\ pc' = "panic"
    /\ panicked' = [msg |-> "Unexpected end of while parsing!", line |-> lines[pos + 1]]
    /\ pos' = pos + 1
    /\ UNCHANGED <<lines, ints, ids, fdb, cidx, res, op, arg, out>>

\* EndIds that breaks at every blank line
EndIds_anyblank ==
    /\ pc = "ids"
    /\ \/ /\ pos < Len(lines)
          /\ Len(lines[pos + 1]) = 0
          /\ pos' = pos + 1
       \/ /\ pos = Len(lines)
          /\ pos' = pos
    /\ fdb' = [intervals |-> sort(ints), to_check |-> ids]
    /\ pc' = "main"
    /\ UNCHANGED <<lines, ints, ids, cidx, res, panicked, op, arg, out>>

\* a blank last line (break) or the end of the lines: ints.sort() and return
EndIds ==
    /\ pc = "ids"
    /\ \/ /\ pos < Len(lines)
          /\ Len(lines[pos + 1]) = 0
          /\ pos + 1 = Len(lines)
          /\ pos' = pos + 1
       \/ /\ pos = Len(lines)
          /\ pos' = pos
    /\ fdb' = [intervals |-> sort(ints), to_check |-> ids]
    /\ pc' = "main"
    /\ UNCHANGED <<lines, ints, ids, cidx, res, panicked, op, arg, out>>

(* -- main: the loop over fdb.to_check -- *)

BoolAsU64(b) == IF b THEN 1 ELSE 0

CountQuery ==
    /\ pc = "main"
    /\ cidx < Len(fdb.to_check)
    /\ res' = res + BoolAsU64(bruteforce_interval(fdb.to_check[cidx + 1],
                                                  fdb.intervals))
    /\ cidx' = cidx + 1
    /\ UNCHANGED <<lines, pos, pc, ints, ids, fdb, panicked, op, arg, out>>

\* println!("{}", res)
PrintResult ==
    /\ pc = "main"
    /\ cidx = Len(fdb.to_check)
    /\ pc' = "done"
    /\ UNCHANGED <<lines, pos, ints, ids, fdb, cidx, res, panicked, op, arg, out>>

Next ==
    \/ ReadInterval
    \/ PanicInterval
    \/ EndIntervals
    \/ ReadId
    \/ PanicId
    \/ PanicUnexpected
    \/ EndIds
    \/ CountQuery
    \/ PrintResult

Spec == Init /\ [][Next]_vars

----------------------------------------------------------------------------
(* The input format of the puzzle, stated independently of the parsers    *)

IsDecimalText(s) ==
    Len(s) > 0 /\ \A i \in 1..Len(s) : s[i] \in Byte0..Byte9

\* the number a decimal text denotes, digit by digit from the left
RECURSIVE DecimalValue(_)
DecimalValue(s) ==
    IF Len(s) = 0 THEN 0
    ELSE 10 * DecimalValue(SubSeq(s, 1, Len(s) - 1)) + (s[Len(s)] - Byte0)

DashSplits(l) ==
    {k \in 1..Len(l) :
        /\ l[k] = ByteDash
        /\ IsDecimalText(SubSeq(l, 1, k - 1))
        /\ IsDecimalText(SubSeq(l, k + 1, Len(l)))}

LineLow(l) ==
    LET k == CHOOSE d \in DashSplits(l) : TRUE IN DecimalValue(SubSeq(l, 1, k - 1))

LineHigh(l) ==
    LET k == CHOOSE d \in DashSplits(l) : TRUE IN DecimalValue(SubSeq(l, k + 1, Len(l)))

\* the exact form <low>-<high> with low <= high
IsIntervalLine(l) == DashSplits(l) # {} /\ LineLow(l) <= LineHigh(l)

\* index of the first blank line, Len + 1 when there is none
FirstBlank(ls) ==
    IF \E i \in 1..Len(ls) : ls[i] = BlankLine
    THEN CHOOSE i \in 1..Len(ls) :
            ls[i] = BlankLine /\ \A j \in 1..(i - 1) : ls[j] # BlankLine
    ELSE Len(ls) + 1

\* index of the last query line: a blank last line closes the query block
LastQuery(ls) ==
    IF Len(ls) > FirstBlank(ls) /\ ls[Len(ls)] = BlankLine
    THEN Len(ls) - 1 ELSE Len(ls)

WellFormedInput(ls) ==
    /\ \A i \in 1..(FirstBlank(ls) - 1) : IsIntervalLine(ls[i])
    /\ \A i \in (FirstBlank(ls) + 1)..LastQuery(ls) : IsDecimalText(ls[i])

ContainedQueries(ls) ==
    {i \in (FirstBlank(ls) + 1)..LastQuery(ls) :
        \E j \in 1..(FirstBlank(ls) - 1) :
            /\ LineLow(ls[j]) <= DecimalValue(ls[i])
            /\ DecimalValue(ls[i]) <= LineHigh(ls[j])}

----------------------------------------------------------------------------
(* Properties *)

\* C1: on well-formed input the program does not panic and the answer it
\* prints is the number of query lines whose value lies inside at least one
\* interval line, each query counted once; the input of test_load gives 3.
AnswerCountsContainedQueries ==
    /\ pc = "panic" => ~WellFormedInput(lines)
    /\ (pc = "done" /\ WellFormedInput(lines)) =>
            /\ res = Cardinality(ContainedQueries(lines))
            /\ lines = TestLoadLines => res = 3

AnswerOfTestLoad ==
    /\ pc = "done"
    /\ lines = TestLoadLines
    /\ res = 3
    /\ Len(fdb.intervals) = 4
    /\ Len(fdb.to_check) = 6

Perms(n) == {p \in [1..n -> 1..n] : \A i, j \in 1..n : p[i] = p[j] => i = j}

\* C2: bruteforce_interval is true exactly when some interval of the slice
\* contains the value, false on the empty slice, and the same on every
\* reordering of the slice.
BruteforceIsExistsContains ==
    op = "bruteforce_interval" =>
        LET s == arg.intervals
            n == Len(arg.intervals) IN
        /\ out = (\E i \in 1..n : contains(s[i], arg.val))
        /\ n = 0 => out = FALSE
        /\ \A p \in Perms(n) :
              bruteforce_interval(arg.val, [i \in 1..n |-> s[p[i]]]) = out

\* a hit in the last place of an unsorted, overlapping slice
BruteforceHitsLast ==
    /\ op = "bruteforce_interval"
    /\ out = TRUE
    /\ Len(arg.intervals) = 3
    /\ ~contains(arg.intervals[1], arg.val)
    /\ ~contains(arg.intervals[2], arg.val)
    /\ arg.intervals[1].low > arg.intervals[3].low
    /\ arg.intervals[2].low > arg.intervals[3].low

Gap(a, b) == a.high < b.low \/ b.high < a.low

\* C3: merge succeeds exactly when the intervals overlap or touch, fails with
\* UnmergableInts exactly when there is a gap, and the outcome is the same in
\* both directions.
MergeSucceedsIffNoGap ==
    op = "merge" =>
        /\ IsOk(out) <=> ~Gap(ArgA.val, ArgB.val)
        /\ out = Err("UnmergableInts") <=> Gap(ArgA.val, ArgB.val)
        /\ IsOk(merge(ArgA.val, ArgB.val)) <=> IsOk(merge(ArgB.val, ArgA.val))

\* C4: a successful merge returns [min(a.low, b.low), max(a.high, b.high)],
\* which contains every value that a or b contains.
MergeSpansBoth ==
    (op = "merge" /\ IsOk(out)) =>
        LET a == ArgA.val
            b == ArgB.val IN
        /\ out.val.low = (IF a.low <= b.low THEN a.low ELSE b.low)
        /\ out.val.high = (IF a.high >= b.high THEN a.high ELSE b.high)
        /\ \A v \in 0..(MaxVal + 1) :
              (contains(a, v) \/ contains(b, v)) => contains(out.val, v)

MergeOfTwoRanges ==
    /\ op = "merge"
    /\ IsOk(out)
    /\ arg.low1 < arg.high1
    /\ arg.low2 < arg.high2

\* C5: from_str returns an error for every byte string that is not of the
\* exact form <low>-<high> with low <= high (no '-', an empty or non-numeric
\* side, low > high).
FromStrRejectsMalformed ==
    (op = "from_str" /\ ~IsIntervalLine(arg.txt)) => out = Err("InvalidClosedInt")

\* C6: for a <= b, from_str of the decimal text "<a>-<b>" is Ok and equal to
\* new(a, b); the interval contains all of a..b and neither a-1 nor b+1.
FromStrParsesDecimalText ==
    op = "from_str" =>
        \A a, b \in 0..MaxNum :
            (a <= b /\ arg.txt = IntervalText(a, b)) =>
                /\ IsOk(out)
                /\ out = new(a, b)
                /\ out.val = [low |-> a, high |-> b]
                /\ \A v \in a..b : contains(out.val, v)
                /\ a > 0 => ~contains(out.val, a - 1)
                /\ ~contains(out.val, b + 1)

\* "9-10"
FromStrOfTwoDigits ==
    /\ op = "from_str"
    /\ arg.txt = <<57, 45, 49, 48>>
    /\ out = Ok([low |-> 9, high |-> 10])

\* C7: new fails with InvalidClosedInt iff low > high, otherwise the interval
\* has exactly the given bounds; every interval that exists has low <= high.
NewRejectsIffLowAboveHigh ==
    /\ op = "new" =>
        /\ out = Err("InvalidClosedInt") <=> arg.low1 > arg.high1
        /\ arg.low1 <= arg.high1 =>
              out = Ok([low |-> arg.low1, high |-> arg.high1])
        /\ IsOk(out) => out.val.low <= out.val.high
    /\ (op = "merge" /\ IsOk(out)) => out.val.low <= out.val.high

NewOfSinglePoint ==
    /\ op = "new"
    /\ arg.low1 = arg.high1
    /\ IsOk(out)

\* C8: contains(v) iff low <= v <= high, is_before(v) iff v > high,
\* is_after(v) iff v < low, and exactly one of the three holds.
ContainsIsClosedRange ==
    op = "contains" =>
        LET i == ArgA.val
            v == arg.num IN
        /\ out.contains <=> (i.low <= v /\ v <= i.high)
        /\ out.is_before <=> v > i.high
        /\ out.is_after <=> v < i.low
        /\ out.contains \/ out.is_before \/ out.is_after
        /\ ~(out.contains /\ out.is_before)
        /\ ~(out.contains /\ out.is_after)
        /\ ~(out.is_before /\ out.is_after)

ContainsHighEndpoint ==
    /\ op = "contains"
    /\ arg.low1 < arg.high1
    /\ arg.num = arg.high1
    /\ out.contains

\* C9: x < y iff x.low < y.low, x > y iff x.low > y.low, cmp is Equal iff the
\* lows are equal; intervals with the same low and different highs compare
\* Equal although they are not ==.
OrderingIsByLow ==
    op = "cmp" =>
        LET x == ArgA.val
            y == ArgB.val IN
        /\ out.lt <=> x.low < y.low
        /\ out.gt <=> x.low > y.low
        /\ out.cmp = "Equal" <=> x.low = y.low
        /\ (x.low = y.low /\ x.high # y.high) => (out.cmp = "Equal" /\ ~out.eq)

EqualLowDifferentHigh ==
    /\ op = "cmp"
    /\ arg.low1 = arg.low2
    /\ arg.high1 # arg.high2
    /\ out.cmp = "Equal"
    /\ ~out.eq

\* C10: ascii_to_u64 fails with InvalidAsciiU64 on the empty slice and on a
\* slice that begins with a non-digit byte.
AsciiToU64RejectsNoDigits ==
    (op = "ascii_to_u64"
        /\ (Len(arg.txt) = 0 \/ arg.txt[1] \notin Byte0..Byte9)) =>
            out = Err("InvalidAsciiU64")

\* a decimal text without the zeros in front
RECURSIVE StripZeros(_)
StripZeros(txt) ==
    IF Len(txt) > 0 /\ txt[1] = Byte0 THEN StripZeros(Tail(txt)) ELSE txt

\* the number that the first n digits of a decimal text denote, in five limbs
\* of 16 bits (Horner's rule, nothing dropped for n <= 24)
RECURSIVE HornerText(_, _)
HornerText(txt, n) ==
    IF n = 0 THEN <<0, 0, 0, 0, 0>>
    ELSE LET h == HornerText(txt, n - 1)
             t0 == h[1] * 10 + (txt[n] - Byte0)
             t1 == h[2] * 10 + t0 \div Limb
             t2 == h[3] * 10 + t1 \div Limb
             t3 == h[4] * 10 + t2 \div Limb
             t4 == h[5] * 10 + t3 \div Limb IN
         <<t0 % Limb, t1 % Limb, t2 % Limb, t3 % Limb, t4>>

WideOfText(txt) == HornerText(StripZeros(txt), Len(StripZeros(txt)))

FitsU64(txt) == Len(StripZeros(txt)) <= 24 /\ WideOfText(txt)[5] = 0

\* C11: for every non-empty text of decimal digits whose value fits in 64
\* bits, of any length, ascii_to_u64 returns Ok with that value and no
\* operation of it overflows.
AsciiToU64ExactWhenValueFits ==
    (op = "ascii_to_u64_build" /\ IsDecimalText(arg.txt) /\ FitsU64(arg.txt)) =>
        /\ out.tag = "Ok"
        /\ out.val = SubSeq(WideOfText(arg.txt), 1, 4)
        /\ ~out.overflow

\* the lines of the interval block as from_str reads them
ParsedIntervals(ls) ==
    LET fb == FirstBlank(ls) IN
    [i \in 1..(fb - 1) |-> from_str(ls[i]).val]

\* the lines after the interval block, up to index last, as ascii_to_u64 reads
\* them
ParsedQueries(ls, last) ==
    LET fb == FirstBlank(ls) IN
    [i \in 1..(last - fb) |-> ascii_to_u64(ls[fb + i]).val]

\* index of the first blank line of the query block, Len + 1 when there is none
QueryBlank(ls) ==
    LET fb == FirstBlank(ls) IN
    IF \E i \in (fb + 1)..Len(ls) : ls[i] = BlankLine
    THEN CHOOSE i \in (fb + 1)..Len(ls) :
            ls[i] = BlankLine /\ \A j \in (fb + 1)..(i - 1) : ls[j] # BlankLine
    ELSE Len(ls) + 1

\* every line up to the end of the query block is read by its parser
BlocksParse(ls) ==
    LET fb == FirstBlank(ls)
        qb == QueryBlank(ls) IN
    /\ \A i \in 1..(fb - 1) : IsOk(from_str(ls[i]))
    /\ \A i \in (fb + 1)..(qb - 1) : IsOk(ascii_to_u64(ls[i]))

Count(seq, x) == Cardinality({i \in DOMAIN seq : seq[i] = x})

SameElements(s, t) ==
    Len(s) = Len(t) /\ \A i \in DOMAIN s : Count(s, s[i]) = Count(t, s[i])

Constructed == pc \in {"main", "done"}

\* C12 as stated: the first blank line of the query block ends it whether or not
\* lines follow it: when the lines before it parse, construction does not fail
\* and the problem holds exactly the intervals of the interval block and the
\* query values before that blank line.
AnyBlankLineEndsQueryBlock ==
    /\ pc = "panic" => ~BlocksParse(lines)
    /\ Constructed =>
        /\ SameElements(fdb.intervals, ParsedIntervals(lines))
        /\ fdb.to_check = ParsedQueries(lines, QueryBlank(lines) - 1)

\* C12 amended: the first blank line ends the interval block; the end of the
\* input, or a blank line that is the last line, ends the query block, and then
\* construction does not fail and the problem holds exactly the intervals and
\* query values read; a blank line of the query block with a line after it is
\* the fatal failure "Unexpected end of while parsing!".
BlankLastLineEndsQueryBlock ==
    /\ pc = "panic" => ~(BlocksParse(lines) /\ QueryBlank(lines) >= Len(lines))
    /\ Constructed =>
        /\ QueryBlank(lines) >= Len(lines)
        /\ SameElements(fdb.intervals, ParsedIntervals(lines))
        /\ fdb.to_check = ParsedQueries(lines, QueryBlank(lines) - 1)
    /\ panicked.msg = "Unexpected end of while parsing!" =>
        /\ pos = QueryBlank(lines)
        /\ pos < Len(lines)
        /\ fdb = [intervals |-> <<>>, to_check |-> <<>>]

\* construction completed at a blank last line, with intervals and queries read
BlankLastLineAfterQueries ==
    /\ Constructed
    /\ QueryBlank(lines) = Len(lines)
    /\ Len(fdb.intervals) > 0
    /\ Len(fdb.to_check) > 0

\* the indices of the lines of the two blocks that their parser refuses
BadLines(ls) ==
    LET fb == FirstBlank(ls)
        qb == QueryBlank(ls) IN
    {i \in 1..(fb - 1) : ~IsOk(from_str(ls[i]))}
        \cup {i \in (fb + 1)..(qb - 1) : ~IsOk(ascii_to_u64(ls[i]))}

FirstBadLine(ls) == CHOOSE i \in BadLines(ls) : \A j \in BadLines(ls) : i <= j

\* the malformed interval lines the format names: no or more than one '-', a
\* byte that is neither a digit nor '-', or low > high
MalformedIntervalLine(l) ==
    \/ Cardinality({k \in 1..Len(l) : l[k] = ByteDash}) # 1
    \/ \E k \in 1..Len(l) : l[k] # ByteDash /\ l[k] \notin Byte0..Byte9
    \/ DashSplits(l) # {} /\ LineLow(l) > LineHigh(l)

\* C13: a line of the interval block that from_str refuses, or a non-blank line
\* of the query block that ascii_to_u64 refuses, is fatal: no FoodbProblem is
\* produced from such an input, and the panic that ends construction carries
\* the message of the block and the first such line; the malformed lines that
\* the format names are refused by the parsers.
MalformedInputIsFatal ==
    /\ Constructed => BadLines(lines) = {}
    /\ (pc = "panic" /\ BadLines(lines) # {}) =>
        LET bad == FirstBadLine(lines) IN
        /\ fdb = [intervals |-> <<>>, to_check |-> <<>>]
        /\ pos = bad
        /\ panicked.line = lines[bad]
        /\ panicked.msg =
                IF bad < FirstBlank(lines)
                THEN "Couldn't parse as interval"
                ELSE "Couldn't parse as id"
    /\ (pc = "panic" \/ Constructed) =>
        /\ \A i \in 1..(FirstBlank(lines) - 1) :
                MalformedIntervalLine(lines[i]) => ~IsOk(from_str(lines[i]))
        /\ \A i \in (FirstBlank(lines) + 1)..(QueryBlank(lines) - 1) :
                ~IsDecimalText(lines[i]) => ~IsOk(ascii_to_u64(lines[i]))

\* a query line refused after an interval was read and with a line after it
PanicAtQueryLineBetweenLines ==
    /\ pc = "panic"
    /\ panicked.msg = "Couldn't parse as id"
    /\ Len(ints) > 0
    /\ pos < Len(lines)

\* the intervals of a sequence that have the given low, in their order
RECURSIVE WithLow(_, _)
WithLow(seq, low) ==
    IF seq = <<>> THEN <<>>
    ELSE IF seq[1].low = low THEN <<seq[1]>> \o WithLow(Tail(seq), low)
    ELSE WithLow(Tail(seq), low)

\* C14: after new_from_lines returns, intervals is ascending by low and holds
\* exactly the intervals parsed from the interval block, each as often as it
\* was parsed, and the intervals of one low stand in their input order.
IntervalsSortedStablePermutation ==
    Constructed =>
        LET parsed == ParsedIntervals(lines) IN
        /\ \A i, j \in 1..Len(fdb.intervals) :
                i < j => fdb.intervals[i].low <= fdb.intervals[j].low
        /\ SameElements(fdb.intervals, parsed)
        /\ \A i \in 1..Len(fdb.intervals) :
                WithLow(fdb.intervals, fdb.intervals[i].low)
                    = WithLow(parsed, fdb.intervals[i].low)

\* two intervals of one low were read, the one with the greater high first
EqualLowKeptInInputOrder ==
    /\ Constructed
    /\ \E i, j \in 1..Len(fdb.intervals) :
            /\ i < j
            /\ fdb.intervals[i].low = fdb.intervals[j].low
            /\ fdb.intervals[i].high > fdb.intervals[j].high

\* C15: on every slice that is ascending by low with pairwise disjoint
\* intervals, and for every value, the binary search (the interval with the
\* greatest low <= value, false if there is none, and contains of that interval
\* only) returns what bruteforce_interval returns.
BinarySearchAgreesWithBruteforce ==
    op = "search" => out.binary = out.linear

\* the value is found in an interval that is not the first of the slice
SearchHitsLaterInterval ==
    /\ op = "search"
    /\ out.binary
    /\ Len(arg.intervals) = MaxSlice
    /\ ~contains(arg.intervals[1], arg.val)

\* C16: for valid intervals a and b, a.merge(b) is Ok or Err(UnmergableInts)
\* and never a panic: whenever the test of merge lets the merge branch be
\* taken, min(a.low, b.low) <= max(a.low, b.high), so new does not refuse the
\* bounds and the unwrap does not fail.
MergeNeverPanics ==
    op = "merge" =>
        LET a == ArgA.val
            b == ArgB.val IN
        /\ a.low <= a.high /\ b.low <= b.high
        /\ out.tag # "Panic"
        /\ IsOk(out) \/ out = Err("UnmergableInts")
        /\ ~(a.high < b.low \/ b.low < a.high) =>
            /\ min(a.low, b.low) <= max(a.low, b.high)
            /\ out = Ok([low |-> min(a.low, b.low), high |-> max(a.low, b.high)])

\* the merge branch taken for two intervals with different lows
MergeBranchTaken ==
    /\ op = "merge"
    /\ IsOk(out)
    /\ arg.low1 < arg.low2

====
